---------------------------- MODULE Spec2Model ----------------------------
(***************************************************************************)
(* Field coercion and identifier remapping layer of tools/orm.py:          *)
(* int_or_none, the converter table, parse_time, Mixin.__init__ and the    *)
(* constructors of ServiceDay, Stop, Route, DirectedRoute, Trip, StopTime. *)
(*                                                                         *)
(* Python strings are sequences of one-character strings.  Python values   *)
(* are records [t, s, i, e]: t is the Python type, s the characters of a   *)
(* str, i the value of an int (or the mantissa of a float), e the decimal  *)
(* exponent of a float.  A raised exception is a value of type "error"     *)
(* whose s field names the exception.                                      *)
(***************************************************************************)
EXTENDS Integers, Sequences, FiniteSets, TLC

VARIABLES stopMapping, tripMapping, serviceMapping, tripLog, last, arg, ret

vars == <<stopMapping, tripMapping, serviceMapping, tripLog, last, arg, ret>>

(* Bounds *)
MaxLen == 3
MaxTrips == 3

(***************************************************************************)
(* Python values                                                           *)
(***************************************************************************)
Str(s) == [t |-> "str", s |-> s, i |-> 0, e |-> 0]
IntV(n) == [t |-> "int", s |-> <<>>, i |-> n, e |-> 0]
FloatV(m, x) == [t |-> "float", s |-> <<>>, i |-> m, e |-> x]
NoneV == [t |-> "none", s |-> <<>>, i |-> 0, e |-> 0]
Raise(name) == [t |-> "error", s |-> <<name>>, i |-> 0, e |-> 0]
IsError(v) == v.t = "error"

Digits == {"0", "1", "2", "3", "4", "5", "6", "7", "8", "9"}

DigitVal(c) ==
    CASE c = "0" -> 0 [] c = "1" -> 1 [] c = "2" -> 2 [] c = "3" -> 3
      [] c = "4" -> 4 [] c = "5" -> 5 [] c = "6" -> 6 [] c = "7" -> 7
      [] c = "8" -> 8 [] c = "9" -> 9

\* first index at or after i of s that does not hold a decimal digit
RECURSIVE DigitsEnd(_, _)
DigitsEnd(s, i) ==
    IF i <= Len(s) /\ s[i] \in Digits THEN DigitsEnd(s, i + 1) ELSE i

\* value of the decimal digits s[i] .. s[j-1]
RECURSIVE NumVal(_, _, _)
NumVal(s, i, j) ==
    IF j <= i THEN 0 ELSE NumVal(s, i, j - 1) * 10 + DigitVal(s[j - 1])

RECURSIVE Pow10(_)
Pow10(n) == IF n = 0 THEN 1 ELSE 10 * Pow10(n - 1)

\* str.lstrip(c): every leading occurrence of c is removed
RECURSIVE LStrip(_, _)
LStrip(s, c) ==
    IF Len(s) > 0 /\ s[1] = c THEN LStrip(Tail(s), c) ELSE s

\* int(s) for a str s: optional sign, then one or more decimal digits
PyInt(s) ==
    LET p == IF Len(s) > 0 /\ s[1] \in {"+", "-"} THEN 2 ELSE 1
        q == DigitsEnd(s, p)
        n == NumVal(s, p, q)
    IN  IF q > p /\ q = Len(s) + 1
        THEN IntV(IF Len(s) > 0 /\ s[1] = "-" THEN 0 - n ELSE n)
        ELSE Raise("ValueError")

RECURSIVE Norm(_, _)
Norm(m, x) ==
    IF m = 0 THEN FloatV(0, 0)
    ELSE IF m % 10 = 0 THEN Norm(m \div 10, x + 1) ELSE FloatV(m, x)

\* float(s) for a str s: [sign] digits [. digits] [(e|E) [sign] digits],
\* with at least one digit in the mantissa; the value is i * 10^e
PyFloat(s) ==
    LET p  == IF Len(s) > 0 /\ s[1] \in {"+", "-"} THEN 2 ELSE 1
        a  == DigitsEnd(s, p)
        dot == a <= Len(s) /\ s[a] = "."
        b  == IF dot THEN DigitsEnd(s, a + 1) ELSE a
        fr == IF dot THEN b - (a + 1) ELSE 0
        hasExp == b <= Len(s) /\ s[b] \in {"e", "E"}
        q  == IF b + 1 <= Len(s) /\ s[b + 1] \in {"+", "-"} THEN b + 2 ELSE b + 1
        z  == DigitsEnd(s, q)
        xv == IF hasExp
              THEN (IF s[q - 1] = "-" THEN 0 - NumVal(s, q, z) ELSE NumVal(s, q, z))
              ELSE 0
        mv == NumVal(s, p, a) * Pow10(fr) + (IF dot THEN NumVal(s, a + 1, b) ELSE 0)
        ok == /\ (a - p) + fr >= 1
              /\ IF hasExp THEN z > q /\ z = Len(s) + 1 ELSE b = Len(s) + 1
    IN  IF ok
        THEN Norm(IF Len(s) > 0 /\ s[1] = "-" THEN 0 - mv ELSE mv, xv - fr)
        ELSE Raise("ValueError")

int_or_none(s) ==
    IF s = Str(<<>>) THEN NoneV
    ELSE IF s.t = "str" THEN PyInt(LStrip(s.s, "E"))
    ELSE IF s.t = "int" THEN s
    ELSE Raise("TypeError")

\* float(x)
PyFloatOf(x) ==
    IF x.t = "str" THEN PyFloat(x.s)
    ELSE IF x.t = "int" THEN Norm(x.i, 0)
    ELSE IF x.t = "float" THEN x
    ELSE Raise("TypeError")

\* the column types for which _converters has an entry
ConverterTypes == {"Integer", "String", "Float"}

_converters(type, x) ==
    CASE type = "Integer" -> int_or_none(x)
      [] type = "String" -> x
      [] type = "Float" -> PyFloatOf(x)

TimeLen == 8

\* _time_re.match(s): anchored at the start of s, not at its end
TimeReMatch(s) ==
    /\ Len(s) >= 8
    /\ \A i \in {1, 2, 4, 5, 7, 8} : s[i] \in Digits
    /\ s[3] = ":" /\ s[6] = ":"

\* mutant: the length assertion is missing
parse_time_no_len(s) ==
    IF ~TimeReMatch(s.s) THEN Raise("AssertionError")
    ELSE IntV(NumVal(s.s, 1, 3) * 60 + NumVal(s.s, 4, 6))

parse_time(s) ==
    IF Len(s.s) # TimeLen THEN Raise("AssertionError")
    ELSE IF ~TimeReMatch(s.s) THEN Raise("AssertionError")
    ELSE IntV(NumVal(s.s, 1, 3) * 60 + NumVal(s.s, 4, 6))

(***************************************************************************)
(* Declared schema                                                         *)
(***************************************************************************)
Kinds == {"ServiceDay", "Stop", "Route", "DirectedRoute", "Trip", "StopTime"}

\* self.__table__.columns: column name -> class of the column's type
Columns(kind) ==
    CASE kind = "ServiceDay" ->
            ("_id" :> "Integer" @@ "date" :> "String" @@ "service_id" :> "Integer")
      [] kind = "Stop" ->
            ("_id" :> "Integer" @@ "stop_id" :> "String" @@ "stop_code" :> "String"
             @@ "stop_name" :> "String" @@ "stop_lat" :> "Float" @@ "stop_lon" :> "Float")
      [] kind = "Route" ->
            ("route_id" :> "String" @@ "route_short_name" :> "String"
             @@ "route_color" :> "String" @@ "route_text_color" :> "String")
      [] kind = "DirectedRoute" ->
            ("_id" :> "Integer" @@ "route_id" :> "String" @@ "direction_id" :> "Integer"
             @@ "route_modal_headsign" :> "String")
      [] kind = "Trip" ->
            ("trip_id" :> "Integer" @@ "route_id" :> "String" @@ "service_id" :> "Integer"
             @@ "trip_headsign" :> "String" @@ "direction_id" :> "Integer"
             @@ "block_id" :> "Integer" @@ "shape_id" :> "Integer"
             @@ "last_stop_sequence" :> "Integer" @@ "is_representative" :> "Boolean")
      [] kind = "StopTime" ->
            ("id" :> "Integer" @@ "trip_id" :> "Integer" @@ "arrival_time" :> "Integer"
             @@ "stop_id" :> "Integer" @@ "stop_sequence" :> "Integer"
             @@ "pickup_type" :> "Integer" @@ "drop_off_type" :> "Integer")

\* the characters of a field name
Chars(k) ==
    CASE k = "_id" -> <<"_","i","d">>
      [] k = "date" -> <<"d","a","t","e">>
      [] k = "service_id" -> <<"s","e","r","v","i","c","e","_","i","d">>
      [] k = "stop_id" -> <<"s","t","o","p","_","i","d">>
      [] k = "stop_code" -> <<"s","t","o","p","_","c","o","d","e">>
      [] k = "stop_name" -> <<"s","t","o","p","_","n","a","m","e">>
      [] k = "stop_lat" -> <<"s","t","o","p","_","l","a","t">>
      [] k = "stop_lon" -> <<"s","t","o","p","_","l","o","n">>
      [] k = "stop_desc" -> <<"s","t","o","p","_","d","e","s","c">>
      [] k = "stop_url" -> <<"s","t","o","p","_","u","r","l">>
      [] k = "location_type" -> <<"l","o","c","a","t","i","o","n","_","t","y","p","e">>
      [] k = "zone_id" -> <<"z","o","n","e","_","i","d">>
      [] k = "route_id" -> <<"r","o","u","t","e","_","i","d">>
      [] k = "route_short_name" -> <<"r","o","u","t","e","_","s","h","o","r","t","_","n","a","m","e">>
      [] k = "route_color" -> <<"r","o","u","t","e","_","c","o","l","o","r">>
      [] k = "route_text_color" -> <<"r","o","u","t","e","_","t","e","x","t","_","c","o","l","o","r">>
      [] k = "route_long_name" -> <<"r","o","u","t","e","_","l","o","n","g","_","n","a","m","e">>
      [] k = "route_desc" -> <<"r","o","u","t","e","_","d","e","s","c">>
      [] k = "route_type" -> <<"r","o","u","t","e","_","t","y","p","e">>
      [] k = "route_url" -> <<"r","o","u","t","e","_","u","r","l">>
      [] k = "direction_id" -> <<"d","i","r","e","c","t","i","o","n","_","i","d">>
      [] k = "route_modal_headsign" -> <<"r","o","u","t","e","_","m","o","d","a","l","_","h","e","a","d","s","i","g","n">>
      [] k = "trip_id" -> <<"t","r","i","p","_","i","d">>
      [] k = "trip_headsign" -> <<"t","r","i","p","_","h","e","a","d","s","i","g","n">>
      [] k = "block_id" -> <<"b","l","o","c","k","_","i","d">>
      [] k = "shape_id" -> <<"s","h","a","p","e","_","i","d">>
      [] k = "last_stop_sequence" -> <<"l","a","s","t","_","s","t","o","p","_","s","e","q","u","e","n","c","e">>
      [] k = "is_representative" -> <<"i","s","_","r","e","p","r","e","s","e","n","t","a","t","i","v","e">>
      [] k = "id" -> <<"i","d">>
      [] k = "arrival_time" -> <<"a","r","r","i","v","a","l","_","t","i","m","e">>
      [] k = "stop_sequence" -> <<"s","t","o","p","_","s","e","q","u","e","n","c","e">>
      [] k = "pickup_type" -> <<"p","i","c","k","u","p","_","t","y","p","e">>
      [] k = "drop_off_type" -> <<"d","r","o","p","_","o","f","f","_","t","y","p","e">>
      [] k = "departure_time" -> <<"d","e","p","a","r","t","u","r","e","_","t","i","m","e">>
      [] k = "time" -> <<"t","i","m","e">>
      [] k = "bogus" -> <<"b","o","g","u","s">>
\* the value of the class attribute ignore_fields: a tuple of names, except
\* for StopTime, where ('departure_time') is a parenthesised str
ignore_fields(kind) ==
    CASE kind = "ServiceDay" -> [isStr |-> FALSE, items |-> {}, chars |-> <<>>]
      [] kind = "Stop" ->
            [isStr |-> FALSE, chars |-> <<>>,
             items |-> {"stop_desc", "stop_url", "location_type", "zone_id"}]
      [] kind = "Route" ->
            [isStr |-> FALSE, chars |-> <<>>,
             items |-> {"route_long_name", "route_desc", "route_type", "route_url"}]
      [] kind = "DirectedRoute" -> [isStr |-> FALSE, items |-> {}, chars |-> <<>>]
      [] kind = "Trip" -> [isStr |-> FALSE, items |-> {}, chars |-> <<>>]
      [] kind = "StopTime" ->
            [isStr |-> TRUE, items |-> {}, chars |-> Chars("departure_time")]

IsSubstring(a, b) ==
    \E i \in 0 .. (Len(b) - Len(a)) : SubSeq(b, i + 1, i + Len(a)) = a

\* k in self.ignore_fields: membership in a tuple, substring test on a str
InIgnore(k, kind) ==
    LET ig == ignore_fields(kind)
    IN  IF ig.isStr THEN IsSubstring(Chars(k), ig.chars) ELSE k \in ig.items

NoAttrs == [n \in {} |-> NoneV]

Outcome(r, f, a) == [result |-> r, field |-> f, attrs |-> a]

\* Mixin.__init__(self, **kargs); kargs is the keyword dict in its order
MixinInit(kind, kargs) ==
    LET RECURSIVE step(_, _)
        step(i, attrs) ==
            IF i > Len(kargs) THEN Outcome("ok", "", attrs)
            ELSE LET k == kargs[i].k
                     v == kargs[i].v
                 IN  IF InIgnore(k, kind) THEN step(i + 1, attrs)
                     ELSE IF k \notin DOMAIN Columns(kind)
                          THEN Outcome("SchemaMismatch", k, attrs)
                     ELSE IF Columns(kind)[k] \notin ConverterTypes
                          THEN Outcome("ConverterLookup", k, attrs)
                     ELSE LET c == _converters(Columns(kind)[k], v)
                          IN  IF IsError(c)
                              THEN Outcome("ConversionFailure", k, attrs)
                              ELSE step(i + 1, (k :> c) @@ attrs)
    IN  step(1, NoAttrs)

Put(m, k, v) == [x \in (DOMAIN m) \cup {k} |-> IF x = k THEN v ELSE m[x]]

Names(kargs) == {kargs[i].k : i \in 1 .. Len(kargs)}

KW(k, v) == [k |-> k, v |-> v]

\* mutant: the duplicate assertion is missing
StopInit_no_dup_check(stop_id, kargs) ==
    LET id == Cardinality(DOMAIN stopMapping)
        m  == Put(stopMapping, stop_id, id)
    IN  IF "_id" \in Names(kargs)
        THEN [out |-> Outcome("TypeError", "_id", NoAttrs), mapping |-> m]
        ELSE [out |-> MixinInit("Stop",
                         <<KW("_id", IntV(id)), KW("stop_id", Str(stop_id))>> \o kargs),
              mapping |-> m]

\* mutant: the duplicate assertion comes after the insertion
StopInit_assert_after_insert(stop_id, kargs) ==
    LET id == Cardinality(DOMAIN stopMapping)
        m  == Put(stopMapping, stop_id, id)
    IN  IF stop_id \in DOMAIN stopMapping
        THEN [out |-> Outcome("DuplicateKey", "stop_id", NoAttrs), mapping |-> m]
        ELSE IF "_id" \in Names(kargs)
        THEN [out |-> Outcome("TypeError", "_id", NoAttrs), mapping |-> m]
        ELSE [out |-> MixinInit("Stop",
                         <<KW("_id", IntV(id)), KW("stop_id", Str(stop_id))>> \o kargs),
              mapping |-> m]

\* Stop.__init__(self, *, stop_id, **kargs): the outcome and the new Stop.mapping
StopInit(stop_id, kargs) ==
    LET id == Cardinality(DOMAIN stopMapping)
        m  == Put(stopMapping, stop_id, id)
    IN  IF stop_id \in DOMAIN stopMapping
        THEN [out |-> Outcome("DuplicateKey", "stop_id", NoAttrs), mapping |-> stopMapping]
        ELSE IF "_id" \in Names(kargs)
        THEN [out |-> Outcome("TypeError", "_id", NoAttrs), mapping |-> m]
        ELSE [out |-> MixinInit("Stop",
                         <<KW("_id", IntV(id)), KW("stop_id", Str(stop_id))>> \o kargs),
              mapping |-> m]

\* mutant: the service lookup is service_mapping.get(service_id)
TripInit_get_service(trip_id, service_id, kargs) ==
    LET new_id == Cardinality(DOMAIN tripMapping)
        m == Put(tripMapping, trip_id, new_id)
        sid == IF service_id \in DOMAIN serviceMapping
               THEN IntV(serviceMapping[service_id]) ELSE NoneV
    IN  [out |-> MixinInit("Trip",
                     <<KW("trip_id", IntV(new_id)), KW("service_id", sid)>> \o kargs),
         mapping |-> m, new_id |-> new_id]

\* Trip.__init__(self, *, trip_id, service_id, **kargs)
TripInit(trip_id, service_id, kargs) ==
    LET new_id == Cardinality(DOMAIN tripMapping)
        m == Put(tripMapping, trip_id, new_id)
    IN  IF service_id \notin DOMAIN serviceMapping
        THEN [out |-> Outcome("UnresolvedReference", "service_id", NoAttrs),
              mapping |-> m, new_id |-> new_id]
        ELSE [out |-> MixinInit("Trip",
                         <<KW("trip_id", IntV(new_id)),
                           KW("service_id", IntV(serviceMapping[service_id]))>> \o kargs),
              mapping |-> m, new_id |-> new_id]

\* mutant: the remaining fields are coerced before the time is parsed
StopTimeInit_coerce_first(trip_id, stop_id, arrival_time, kargs) ==
    IF trip_id \notin DOMAIN tripMapping
    THEN Outcome("UnresolvedReference", "trip_id", NoAttrs)
    ELSE IF stop_id \notin DOMAIN stopMapping
    THEN Outcome("UnresolvedReference", "stop_id", NoAttrs)
    ELSE LET rest == MixinInit("StopTime",
                         <<KW("trip_id", IntV(tripMapping[trip_id])),
                           KW("stop_id", IntV(stopMapping[stop_id]))>> \o kargs)
             t == parse_time(Str(arrival_time))
         IN  IF rest.result # "ok" THEN rest
             ELSE IF IsError(t)
             THEN Outcome("MalformedTimeString", "arrival_time", NoAttrs)
             ELSE Outcome("ok", "", ("arrival_time" :> t) @@ rest.attrs)

\* StopTime.__init__(self, *, trip_id, stop_id, arrival_time, **kargs)
StopTimeInit(trip_id, stop_id, arrival_time, kargs) ==
    IF trip_id \notin DOMAIN tripMapping
    THEN Outcome("UnresolvedReference", "trip_id", NoAttrs)
    ELSE IF stop_id \notin DOMAIN stopMapping
    THEN Outcome("UnresolvedReference", "stop_id", NoAttrs)
    ELSE LET t == parse_time(Str(arrival_time))
         IN  IF IsError(t)
             THEN Outcome("MalformedTimeString", "arrival_time", NoAttrs)
             ELSE MixinInit("StopTime",
                      <<KW("trip_id", IntV(tripMapping[trip_id])),
                        KW("stop_id", IntV(stopMapping[stop_id])),
                        KW("arrival_time", t)>> \o kargs)

(***************************************************************************)
(* Inputs                                                                  *)
(***************************************************************************)
StopKeys == {<<"A">>, <<"B">>}
TripKeys == {<<"T", "1">>, <<"T", "2">>}
WKDY == <<"W", "K", "D", "Y">>
ServiceKeys == {WKDY, <<"S", "A", "T">>}
ServiceIds == {7, 8}

F(k, s) == KW(k, Str(s))

GoodTime == <<"0", "8", ":", "1", "5", ":", "0", "0">>
ShortTime == <<"8", ":", "1", "5", ":", "0", "0">>

ServiceDayArgs ==
    { <<F("date", <<"2">>), F("service_id", <<"7">>)>>,
      <<F("service_id", <<"x">>)>>,
      <<F("bogus", <<"x">>)>> }

StopArgs ==
    { <<F("stop_code", <<"1">>), F("stop_name", <<"x">>),
        F("stop_lat", <<"4", "5", ".", "4">>), F("stop_lon", <<"-", "7", "E", "1">>)>>,
      <<F("stop_lat", <<"x">>)>>,
      <<F("stop_desc", <<"x">>)>>,
      <<F("bogus", <<"x">>)>>,
      <<F("_id", <<"1">>)>> }

RouteArgs ==
    { <<F("route_id", <<"1">>), F("route_short_name", <<"9", "5">>),
        F("route_color", <<"x">>), F("route_text_color", <<"x">>)>>,
      <<F("route_long_name", <<"x">>)>>,
      <<F("bogus", <<"x">>)>> }

DirectedRouteArgs ==
    { <<F("_id", <<"1">>), F("route_id", <<"1">>), F("direction_id", <<"0">>),
        F("route_modal_headsign", <<"x">>)>>,
      <<F("direction_id", <<"x">>)>>,
      <<F("bogus", <<"x">>)>> }

TripArgs ==
    { <<F("route_id", <<"1">>), F("trip_headsign", <<"x">>), F("direction_id", <<"1">>),
        F("block_id", <<"E", "1", "2">>), F("shape_id", <<>>)>>,
      <<F("last_stop_sequence", <<"x">>)>>,
      <<F("is_representative", <<"1">>)>>,
      <<F("bogus", <<"x">>)>> }

StopTimeArgs ==
    { <<F("stop_sequence", <<"1">>), F("departure_time", GoodTime), F("drop_off_type", <<>>)>>,
      <<F("pickup_type", <<"x">>)>>,
      <<F("time", <<"x">>)>>,
      <<F("bogus", <<"x">>)>> }

IntAlphabet == {"1", "2", "E", "x", "-"}

RECURSIVE StringsUpTo(_)
StringsUpTo(n) ==
    IF n = 0 THEN {<<>>}
    ELSE LET shorter == StringsUpTo(n - 1)
         IN  shorter \cup {Append(s, c) : s \in shorter, c \in IntAlphabet}

IntInputs == {Str(s) : s \in StringsUpTo(MaxLen)}

HourMinute == {<<"0", "0">>, <<"0", "8">>, <<"1", "5">>, <<"2", "3">>, <<"5", "9">>, <<"9", "9">>}
Second == {<<"0", "0">>, <<"5", "9">>}

WellFormedTimes ==
    {h \o <<":">> \o m \o <<":">> \o s : h \in HourMinute, m \in HourMinute, s \in Second}

DropAt(s, i) == SubSeq(s, 1, i - 1) \o SubSeq(s, i + 1, Len(s))

TimeInputs ==
    LET base == {h \o <<":">> \o m \o <<":">> \o <<"0", "0">> : h \in HourMinute, m \in {<<"1", "5">>, <<"9", "9">>}}
        all == WellFormedTimes
               \cup {DropAt(s, i) : s \in base, i \in 1 .. 8}
               \cup {[s EXCEPT ![i] = c] : s \in base, i \in 1 .. 8, c \in {"-", "x", ":"}}
               \cup {Append(s, c) : s \in base, c \in {"0", ":"}}
               \cup {<<>>}
    IN  {Str(s) : s \in all}

(***************************************************************************)
(* State                                                                   *)
(***************************************************************************)
NoMapping == [k \in {} |-> 0]

Pending == [t |-> "pending", s |-> <<>>, i |-> 0, e |-> 0]

Op(kind, named, kargs, out) ==
    [kind |-> kind, named |-> named, kargs |-> kargs,
     result |-> out.result, field |-> out.field, attrs |-> out.attrs]

NoOp == Op("none", <<>>, <<>>, Outcome("ok", "", NoAttrs))

\* the class attributes as the module leaves them at import
Init ==
    /\ stopMapping = NoMapping
    /\ tripMapping = NoMapping
    /\ serviceMapping = NoMapping
    /\ tripLog = <<>>
    /\ last = NoOp
    /\ arg = NoneV
    /\ ret = Pending

\* the loader fills ServiceDay.service_mapping before trips are read
PopulateService ==
    \E k \in {WKDY}, v \in ServiceIds :
        /\ serviceMapping' = Put(serviceMapping, k, v)
        /\ last' = Op("populate", <<k>>, <<>>, Outcome("ok", "", "service_id" :> IntV(v)))
        /\ UNCHANGED <<stopMapping, tripMapping, tripLog, arg, ret>>

NewServiceDay ==
    \E kargs \in ServiceDayArgs :
        /\ last' = Op("ServiceDay", <<>>, kargs, MixinInit("ServiceDay", kargs))
        /\ UNCHANGED <<stopMapping, tripMapping, serviceMapping, tripLog, arg, ret>>

NewRoute ==
    \E kargs \in RouteArgs :
        /\ last' = Op("Route", <<>>, kargs, MixinInit("Route", kargs))
        /\ UNCHANGED <<stopMapping, tripMapping, serviceMapping, tripLog, arg, ret>>

NewDirectedRoute ==
    \E kargs \in DirectedRouteArgs :
        /\ last' = Op("DirectedRoute", <<>>, kargs, MixinInit("DirectedRoute", kargs))
        /\ UNCHANGED <<stopMapping, tripMapping, serviceMapping, tripLog, arg, ret>>

NewStop ==
    \E stop_id \in StopKeys, kargs \in StopArgs :
        LET r == StopInit(stop_id, kargs)
        IN  /\ stopMapping' = r.mapping
            /\ last' = Op("Stop", <<stop_id>>, kargs, r.out)
            /\ UNCHANGED <<tripMapping, serviceMapping, tripLog, arg, ret>>

NewTrip ==
    \E trip_id \in TripKeys, service_id \in ServiceKeys, kargs \in TripArgs :
        LET r == TripInit(trip_id, service_id, kargs)
        IN  /\ Len(tripLog) < MaxTrips
            /\ tripMapping' = r.mapping
            /\ tripLog' = Append(tripLog, r.new_id)
            /\ last' = Op("Trip", <<trip_id, service_id>>, kargs, r.out)
            /\ UNCHANGED <<stopMapping, serviceMapping, arg, ret>>

NewStopTime ==
    \E trip_id \in TripKeys, stop_id \in StopKeys,
       arrival_time \in {GoodTime, ShortTime}, kargs \in StopTimeArgs :
        /\ last' = Op("StopTime", <<trip_id, stop_id, arrival_time>>, kargs,
                      StopTimeInit(trip_id, stop_id, arrival_time, kargs))
        /\ UNCHANGED <<stopMapping, tripMapping, serviceMapping, tripLog, arg, ret>>

Next ==
    \/ PopulateService
    \/ NewServiceDay
    \/ NewStop
    \/ NewRoute
    \/ NewDirectedRoute
    \/ NewTrip
    \/ NewStopTime

Spec == Init /\ [][Next]_vars

(***************************************************************************)
(* Integer coercion of one raw field value, through Mixin.__init__         *)
(***************************************************************************)
InitInt ==
    /\ stopMapping = NoMapping
    /\ tripMapping = NoMapping
    /\ serviceMapping = NoMapping
    /\ tripLog = <<>>
    /\ last = NoOp
    /\ arg \in IntInputs
    /\ ret = Pending

CoerceInteger ==
    /\ ret = Pending
    /\ ret' = int_or_none(arg)
    /\ last' = Op("DirectedRoute", <<>>, <<KW("direction_id", arg)>>,
                  MixinInit("DirectedRoute", <<KW("direction_id", arg)>>))
    /\ UNCHANGED <<stopMapping, tripMapping, serviceMapping, tripLog, arg>>

NextInt == CoerceInteger

SpecInt == InitInt /\ [][NextInt]_vars

(***************************************************************************)
(* parse_time on one string                                                *)
(***************************************************************************)
InitTime ==
    /\ stopMapping = NoMapping
    /\ tripMapping = NoMapping
    /\ serviceMapping = NoMapping
    /\ tripLog = <<>>
    /\ last = NoOp
    /\ arg \in TimeInputs
    /\ ret = Pending

CallParseTime ==
    /\ ret = Pending
    /\ ret' = parse_time(arg)
    /\ UNCHANGED <<stopMapping, tripMapping, serviceMapping, tripLog, last, arg>>

NextTime == CallParseTime

SpecTime == InitTime /\ [][NextTime]_vars

(***************************************************************************)
(* Properties                                                              *)
(***************************************************************************)

\* C1: the i-th Trip construction (from 0) receives dense id i, so no two
\* constructions receive the same id, and Trip.mapping never maps two
\* different external trip_ids to the same id.
C1_TripIdsSequential ==
    /\ \A i \in 1 .. Len(tripLog) : tripLog[i] = i - 1
    /\ \A a, b \in DOMAIN tripMapping :
          a # b => tripMapping[a] # tripMapping[b]

\* C2: after every step Stop.mapping with n entries maps its keys onto
\* exactly 0 .. n-1, an entry already present keeps its id, and a newly
\* inserted key gets the number of entries present before the insertion.
C2_StopIdsDense ==
    [][ LET n == Cardinality(DOMAIN stopMapping)
        IN  /\ {stopMapping'[k] : k \in DOMAIN stopMapping'}
                 = 0 .. (Cardinality(DOMAIN stopMapping') - 1)
            /\ \A k \in DOMAIN stopMapping :
                  k \in DOMAIN stopMapping' /\ stopMapping'[k] = stopMapping[k]
            /\ \A k \in (DOMAIN stopMapping') \ (DOMAIN stopMapping) :
                  stopMapping'[k] = n ]_vars

\* a failing Stop construction inserted the second key, which got id 1
C2_Witness ==
    /\ last.kind = "Stop"
    /\ last.result = "ConversionFailure"
    /\ Cardinality(DOMAIN stopMapping) = 2
    /\ stopMapping[last.named[1]] = 1

\* C3: a Stop, Trip or StopTime construction that fails leaves Stop.mapping,
\* Trip.mapping and ServiceDay.service_mapping as they were before it.
C3_FailedRecordLeavesNoTrace ==
    [][ (last'.kind \in {"Stop", "Trip", "StopTime"} /\ last'.result # "ok")
          => UNCHANGED <<stopMapping, tripMapping, serviceMapping>> ]_vars

\* C4: constructing a Stop whose stop_id is already a key of Stop.mapping
\* fails with Duplicate Key and leaves Stop.mapping unchanged.
C4_DuplicateStopRejected ==
    [][ (last'.kind = "Stop" /\ last'.named[1] \in DOMAIN stopMapping)
          => (last'.result = "DuplicateKey" /\ stopMapping' = stopMapping) ]_vars

\* "A", "B", "A": the third construction raised, the table is {"A": 0, "B": 1}
C4_Witness ==
    /\ last.kind = "Stop"
    /\ last.named = << <<"A">> >>
    /\ last.result = "DuplicateKey"
    /\ stopMapping = (<<"A">> :> 0 @@ <<"B">> :> 1)

\* C5: a foreign-key field is stored as the id its table holds for the
\* external key when the key is present, and the construction fails with
\* Unresolved Reference, producing no entity, when a key was never assigned.
C5_ForeignKeysResolved ==
    /\ last.kind = "Trip" =>
          IF last.named[2] \in DOMAIN serviceMapping
          THEN /\ last.result # "UnresolvedReference"
               /\ last.result = "ok" =>
                     last.attrs["service_id"] = IntV(serviceMapping[last.named[2]])
          ELSE last.result = "UnresolvedReference"
    /\ last.kind = "StopTime" =>
          IF /\ last.named[1] \in DOMAIN tripMapping
             /\ last.named[2] \in DOMAIN stopMapping
          THEN /\ last.result # "UnresolvedReference"
               /\ last.result = "ok" =>
                     /\ last.attrs["trip_id"] = IntV(tripMapping[last.named[1]])
                     /\ last.attrs["stop_id"] = IntV(stopMapping[last.named[2]])
          ELSE last.result = "UnresolvedReference"

\* service_mapping {"WKDY": 7}: a Trip with service_id "WKDY" is stored with 7
C5_Witness ==
    /\ last.kind = "Trip"
    /\ last.result = "ok"
    /\ last.named[2] = WKDY
    /\ serviceMapping = (WKDY :> 7)
    /\ last.attrs["service_id"] = IntV(7)

\* C6: a construction given a field name that is neither one of the entity's
\* listed ignore-field names (for StopTime only 'departure_time') nor one of
\* its declared columns never succeeds.
C6_UnknownFieldRejected ==
    last.kind \in Kinds =>
        LET listed == IF last.kind = "StopTime" THEN {"departure_time"}
                      ELSE ignore_fields(last.kind).items
        IN  \A i \in 1 .. Len(last.kargs) :
                (/\ last.kargs[i].k \notin listed
                 /\ last.kargs[i].k \notin DOMAIN Columns(last.kind))
                    => last.result # "ok"

C8_ParseTime ==
    ret # Pending =>
        LET s == arg.s
            wellFormed ==
                /\ Len(s) = 8
                /\ s[3] = ":" /\ s[6] = ":"
                /\ \A i \in {1, 2, 4, 5, 7, 8} : s[i] \in Digits
        IN  /\ IF wellFormed
               THEN ret = IntV((DigitVal(s[1]) * 10 + DigitVal(s[2])) * 60
                               + DigitVal(s[4]) * 10 + DigitVal(s[5]))
               ELSE ret = Raise("AssertionError")
            /\ s = GoodTime => ret = IntV(495)
            /\ s = <<"0", "0", ":", "0", "0", ":", "0", "0">> => ret = IntV(0)
            /\ s = <<"2", "3", ":", "5", "9", ":", "5", "9">> => ret = IntV(1439)
            /\ s = ShortTime => IsError(ret)
            /\ s = <<"0", "8", "-", "1", "5", "-", "0", "0">> => IsError(ret)

\* "23:59:59" was parsed to 1439
C8_Witness ==
    /\ arg = Str(<<"2", "3", ":", "5", "9", ":", "5", "9">>)
    /\ ret = IntV(1439)

\* C9: no construction fails in the lookup of the converter for a declared
\* column's type.
C9_EveryColumnTypeHasConverter ==
    last.kind \in Kinds => last.result # "ConverterLookup"

\* C10 as stated: when the keys of a StopTime record resolve and the record
\* has both a malformed arrival_time and a remaining field that fails
\* coercion or the schema check, the coercion-stage error is the one raised.
C10_CoercionBeforeTimeParsing ==
    (/\ last.kind = "StopTime"
     /\ last.named[1] \in DOMAIN tripMapping
     /\ last.named[2] \in DOMAIN stopMapping
     /\ IsError(parse_time(Str(last.named[3])))
     /\ MixinInit("StopTime", last.kargs).result # "ok")
        => last.result \in {"ConversionFailure", "SchemaMismatch"}

\* C10 amended: identifier resolution, then arrival-time parsing, then
\* coercion: an unresolved key is reported before anything else, a malformed
\* arrival_time before any error of a remaining field, and the error of a
\* remaining field only when the keys resolve and the time is well formed.
C10_TimeParsingBeforeCoercion ==
    last.kind = "StopTime" =>
        LET resolved == /\ last.named[1] \in DOMAIN tripMapping
                        /\ last.named[2] \in DOMAIN stopMapping
            badTime == IsError(parse_time(Str(last.named[3])))
            rest == MixinInit("StopTime", last.kargs).result
        IN  /\ ~resolved => last.result = "UnresolvedReference"
            /\ resolved /\ badTime => last.result = "MalformedTimeString"
            /\ resolved /\ ~badTime => last.result = rest

\* keys resolve, the time is malformed, a remaining field is undeclared:
\* the construction failed with Malformed Time String
C10_Witness ==
    /\ last.kind = "StopTime"
    /\ last.named[1] \in DOMAIN tripMapping
    /\ last.named[2] \in DOMAIN stopMapping
    /\ last.named[3] = ShortTime
    /\ MixinInit("StopTime", last.kargs).result = "SchemaMismatch"
    /\ last.result = "MalformedTimeString"
=============================================================================
